---------------------------- MODULE Spec2Model ----------------------------
(***************************************************************************)
(* A model of groengemak/solbus: the Solbus device bus (drivers.py), the   *)
(* Modbus register operations and the RS-485 framing with its CRC          *)
(* (modbus.py).  The code is Python 2 (dict.iteritems, byte strings that   *)
(* compare equal to chr() values), and is modelled with Python 2's         *)
(* behaviour.  A byte string is a sequence of integers 0..255.             *)
(*                                                                         *)
(* An object is modelled with the fields its constructor assigns.  That    *)
(* Solbus.__init__ itself fails in Grid.byname (drivers.py:178) is         *)
(* modelled by SolbusInit; the bus methods are modelled on a bus that has  *)
(* the dicts __init__ assigns before that call.  The Grid and its power    *)
(* claims (drivers.py:112-240) are modelled on a Grid constructed directly.*)
(***************************************************************************)
EXTENDS Integers, Sequences, FiniteSets, TLC

VARIABLES
    devs,     \* Solbus.devs: device name -> device object
    powm,     \* Solbus.powm: device name -> mode (add_device never fills it)
    vals,     \* Solbus.vals: device name -> cached value
    busOut,   \* what the last Solbus call did: calls made on devices, outcome
    serio,    \* RS485.serio: the pyserial channel (timeout, input)
    mbOut,    \* what the last Modbus/RS485 call did: sendmsg/recvmsg calls, outcome
    crcOut,   \* the argument and the result of the last RS485._crc call
    name2grid,\* Grid.name2grid: the class attribute, grid name -> Grid
    grid,     \* a Grid object: the attributes it has
    gridOut,  \* what the last Grid call did, and the claim calls so far
    runPc     \* where Solbus.run_forever is: at poll, at sleep, or left by an exception

vars == <<devs, powm, vals, busOut, serio, mbOut, crcOut, name2grid, grid, gridOut, runPc>>

busVars == <<devs, powm, vals, busOut>>
mbVars  == <<serio, mbOut>>
gridVars == <<name2grid, grid, gridOut>>

----------------------------------------------------------------------------
(* Bounds of the model. *)

\* Device names are 1..MaxDevs.
MaxDevs == 2
\* Values a device may report or be set to are 0..MaxVal.
MaxVal == 1
\* _crc is applied to every byte string over CrcBytes of at most this length.
MaxCrcLen == 2

DevNames == 1..MaxDevs
Vals     == 0..MaxVal

----------------------------------------------------------------------------
(* Helpers: Python values. *)

Min(a, b) == IF a <= b THEN a ELSE b

\* The empty dict.
EmptyDict == [x \in {} |-> 0]

\* d[k] = v on a dict.
DictSet(d, k, v) == [x \in (DOMAIN d) \cup {k} |-> IF x = k THEN v ELSE d[x]]

\* Every order in which dict.iteritems may yield the keys S (Python 2 gives no
\* order guarantee).
Orders(S) ==
    { o \in [1..Cardinality(S) -> S] : \A i, j \in DOMAIN o : o[i] = o[j] => i = j }

\* a ^ b on non-negative integers.
BitXor[a \in Nat, b \in Nat] ==
    IF a = 0 THEN b
    ELSE IF b = 0 THEN a
    ELSE (((a % 2) + (b % 2)) % 2) + 2 * BitXor[a \div 2, b \div 2]

\* All prefixes of a sequence, the sequence included.
\* One order of S for each element that can come last: all that the loop of
\* poll, which replaces the cache in every pass, lets an order decide.
LastOrders(S) ==
    IF S = {} THEN { <<>> }
    ELSE { CHOOSE o \in Orders(S) : o[Len(o)] = l : l \in S }

Prefixes(s) == { SubSeq(s, 1, n) : n \in 0..Len(s) }

----------------------------------------------------------------------------
(* modbus.py: chr8, chr16, RS485._crc *)

\* chr8 = chr: one byte; chr raises ValueError outside range(256).
chr8ok(o) == 0 <= o /\ o <= 255
chr8(o) == <<o>>

\* chr16: two bytes, low byte first.
chr16(o) == <<o % 256, o \div 256>>

CrcSeed == 65535
CrcPoly2 == 81922

\* One pass of the inner loop of _crc (lines 149-152) on the checksum c:
\* the xor when the low bit is set, then csum >>= 1.
crcPass[c \in Nat] ==
    IF c % 2 # 0 THEN BitXor[c, CrcPoly2] \div 2 ELSE c \div 2

\* The pass with the generator taps of another CRC-16 (0x8408).
crcShift_ccitt(csum) ==
    IF csum % 2 # 0 THEN BitXor[csum \div 2, 33800] ELSE csum \div 2

crcShift(csum) == crcPass[csum]

\* The inner loop of _crc (for n in range (8)) after n passes.
crcShifts[csum \in Nat, n \in 0..8] ==
    IF n = 0 THEN csum ELSE crcShift(crcShifts[csum, n - 1])

\* The checksum after the outer loop of _crc has taken the first i bytes of
\* msg: csum ^= msgb, then the inner loop.
crcLoop[msg \in Seq(Nat), i \in Nat] ==
    IF i = 0 THEN CrcSeed
    ELSE crcShifts[BitXor[crcLoop[msg, i - 1], msg[i]], 8]

\* Every value the checksum takes right after a shift (csum >>= 1).
crcMids(msg) ==
    { crcShifts[BitXor[crcLoop[msg, i - 1], msg[i]], n] : i \in 1..Len(msg), n \in 1..8 }

\* Line 154: the checksum c as two bytes.
crcBytes[c \in Nat] == chr8(c % 256) \o chr8(c \div 256)

\* _crc
crc(msg) == crcBytes[crcLoop[msg, Len(msg)]]

----------------------------------------------------------------------------
(* drivers.py: Solbus and Soldev *)

\* A device object.  attrs: whether the object has the attributes is_readable
\* and is_writeable; readable, writeable: their values when it has them, and
\* otherwise the capability the device was declared with (the readable= and
\* writeable= arguments of Soldev.__init__, which stores neither).
Device(attrs, readable, writeable) ==
    [attrs |-> attrs, readable |-> readable, writeable |-> writeable]

\* Device objects that come with the attributes of the device contract.
ContractDevices ==
    { Device(TRUE, TRUE, TRUE), Device(TRUE, TRUE, FALSE), Device(TRUE, FALSE, TRUE) }

\* None, no device name, and a get() that raised instead of returning.
NoVal == 0 - 1
NoName == 0 * 1
Raised == 0 - 2

NoCalls == [n \in DevNames |-> 0]

\* The record of a Solbus call.  gets[n]: how often devs[n].get() was called;
\* sets: the (name, value) pairs devs[name].set(value) was called with, in
\* order; outcome: "return" or the exception that reached the caller;
\* result: the value returned; read: what each get() of a poll produced.
BusOut(op, name, arg, outcome, result, gets, sets, read) ==
    [op |-> op, name |-> name, arg |-> arg, outcome |-> outcome,
     result |-> result, gets |-> gets, sets |-> sets, read |-> read]

\* What devobj.get() may do: return a value, or raise (Raised).  A device
\* that is not readable fails (the device contract).
GetResults(devobj) == IF devobj.readable THEN Vals \cup {Raised} ELSE {Raised}

\* What devobj.set(v) may do: TRUE when it returns, FALSE when it raises.
SetResults(devobj) == IF devobj.writeable THEN {TRUE, FALSE} ELSE {FALSE}

\* Solbus.add_device: the assertion, the registration, and then self.mode,
\* which no Solbus has (__init__ names the dict self.powm): AttributeError.
add_device(devnm, devobj) ==
    IF devnm \in DOMAIN devs
    THEN /\ busOut' = BusOut("add_device", devnm, NoVal, "AssertionError", NoVal,
                             NoCalls, <<>>, EmptyDict)
         /\ UNCHANGED <<devs, powm, vals>>
    ELSE /\ devs' = DictSet(devs, devnm, devobj)
         /\ busOut' = BusOut("add_device", devnm, NoVal, "AttributeError", NoVal,
                             NoCalls, <<>>, EmptyDict)
         /\ UNCHANGED <<powm, vals>>

\* The names callers register devices under: one in use, or the next one.
NextNames == { n \in DevNames : n <= Cardinality(DOMAIN devs) + 1 }

\* A caller adds a device object of its own.
AddDevice ==
    /\ \E devnm \in NextNames, devobj \in ContractDevices : add_device(devnm, devobj)
    /\ UNCHANGED <<mbVars, crcOut, gridVars, runPc>>

\* Soldev.__init__ with its defaults (readable=True, writeable=True):
\* registers itself on the bus; readable and writeable are not stored.
SoldevInit ==
    /\ \E name \in NextNames, readable \in {TRUE}, writeable \in {TRUE} :
          add_device(name, Device(FALSE, readable, writeable))
    /\ UNCHANGED <<mbVars, crcOut, gridVars, runPc>>

\* Solbus.__getitem__ with the outcome r of devobj.get(), should it be called.
GetItem_refetch(devnm, r) ==
    IF devnm \notin DOMAIN devs
    THEN /\ busOut' = BusOut("getitem", devnm, NoVal, "AssertionError", NoVal,
                             NoCalls, <<>>, EmptyDict)
         /\ UNCHANGED vals
    ELSE IF ~devs[devnm].attrs
    THEN /\ busOut' = BusOut("getitem", devnm, NoVal, "AttributeError", NoVal,
                             NoCalls, <<>>, EmptyDict)
         /\ UNCHANGED vals
    ELSE IF ~devs[devnm].readable
    THEN /\ busOut' = BusOut("getitem", devnm, NoVal, "AssertionError", NoVal,
                             NoCalls, <<>>, EmptyDict)
         /\ UNCHANGED vals
    ELSE IF r = Raised
    THEN /\ busOut' = BusOut("getitem", devnm, NoVal, "DeviceError", NoVal,
                             [NoCalls EXCEPT ![devnm] = 1], <<>>, EmptyDict)
         /\ UNCHANGED vals
    ELSE /\ vals' = DictSet(vals, devnm, r)
         /\ busOut' = BusOut("getitem", devnm, NoVal, "return", r,
                             [NoCalls EXCEPT ![devnm] = 1], <<>>, EmptyDict)

GetItem(devnm, r) ==
    IF devnm \notin DOMAIN devs
    THEN /\ busOut' = BusOut("getitem", devnm, NoVal, "AssertionError", NoVal,
                             NoCalls, <<>>, EmptyDict)
         /\ UNCHANGED vals
    ELSE IF ~devs[devnm].attrs
    THEN /\ busOut' = BusOut("getitem", devnm, NoVal, "AttributeError", NoVal,
                             NoCalls, <<>>, EmptyDict)
         /\ UNCHANGED vals
    ELSE IF ~devs[devnm].readable
    THEN /\ busOut' = BusOut("getitem", devnm, NoVal, "AssertionError", NoVal,
                             NoCalls, <<>>, EmptyDict)
         /\ UNCHANGED vals
    ELSE IF devnm \in DOMAIN vals
    THEN /\ busOut' = BusOut("getitem", devnm, NoVal, "return", vals[devnm],
                             NoCalls, <<>>, EmptyDict)
         /\ UNCHANGED vals
    ELSE IF r = Raised
    THEN /\ busOut' = BusOut("getitem", devnm, NoVal, "DeviceError", NoVal,
                             [NoCalls EXCEPT ![devnm] = 1], <<>>, EmptyDict)
         /\ UNCHANGED vals
    ELSE /\ vals' = DictSet(vals, devnm, r)
         /\ busOut' = BusOut("getitem", devnm, NoVal, "return", r,
                             [NoCalls EXCEPT ![devnm] = 1], <<>>, EmptyDict)

SolbusGetItem ==
    /\ \E devnm \in DevNames :
          \E r \in (IF devnm \in DOMAIN devs THEN GetResults(devs[devnm]) ELSE {Raised}) :
             GetItem(devnm, r)
    /\ UNCHANGED <<devs, powm, mbVars, crcOut, gridVars, runPc>>

\* __setitem__ with the cache written before devobj.set is called.
SetItem_cache_first(devnm, newval, ok) ==
    IF devnm \notin DOMAIN devs
    THEN /\ busOut' = BusOut("setitem", devnm, newval, "AssertionError", NoVal,
                             NoCalls, <<>>, EmptyDict)
         /\ UNCHANGED vals
    ELSE IF ~devs[devnm].attrs
    THEN /\ busOut' = BusOut("setitem", devnm, newval, "AttributeError", NoVal,
                             NoCalls, <<>>, EmptyDict)
         /\ UNCHANGED vals
    ELSE IF ~devs[devnm].writeable
    THEN /\ busOut' = BusOut("setitem", devnm, newval, "AssertionError", NoVal,
                             NoCalls, <<>>, EmptyDict)
         /\ UNCHANGED vals
    ELSE IF ~ok
    THEN /\ busOut' = BusOut("setitem", devnm, newval, "DeviceError", NoVal,
                             NoCalls, << <<devnm, newval>> >>, EmptyDict)
         /\ vals' = DictSet(vals, devnm, newval)
    ELSE /\ vals' = DictSet(vals, devnm, newval)
         /\ busOut' = BusOut("setitem", devnm, newval, "return", NoVal,
                             NoCalls, << <<devnm, newval>> >>, EmptyDict)

\* Solbus.__setitem__ with the outcome ok of devobj.set(newval), should it be
\* called.
SetItem(devnm, newval, ok) ==
    IF devnm \notin DOMAIN devs
    THEN /\ busOut' = BusOut("setitem", devnm, newval, "AssertionError", NoVal,
                             NoCalls, <<>>, EmptyDict)
         /\ UNCHANGED vals
    ELSE IF ~devs[devnm].attrs
    THEN /\ busOut' = BusOut("setitem", devnm, newval, "AttributeError", NoVal,
                             NoCalls, <<>>, EmptyDict)
         /\ UNCHANGED vals
    ELSE IF ~devs[devnm].writeable
    THEN /\ busOut' = BusOut("setitem", devnm, newval, "AssertionError", NoVal,
                             NoCalls, <<>>, EmptyDict)
         /\ UNCHANGED vals
    ELSE IF ~ok
    THEN /\ busOut' = BusOut("setitem", devnm, newval, "DeviceError", NoVal,
                             NoCalls, << <<devnm, newval>> >>, EmptyDict)
         /\ UNCHANGED vals
    ELSE /\ vals' = DictSet(vals, devnm, newval)
         /\ busOut' = BusOut("setitem", devnm, newval, "return", NoVal,
                             NoCalls, << <<devnm, newval>> >>, EmptyDict)

SolbusSetItem ==
    /\ \E devnm \in DevNames, newval \in Vals :
          \E ok \in (IF devnm \in DOMAIN devs THEN SetResults(devs[devnm]) ELSE {FALSE}) :
             SetItem(devnm, newval, ok)
    /\ UNCHANGED <<devs, powm, mbVars, crcOut, gridVars, runPc>>

\* The loop of Solbus.poll from position i of the iteration order on, the
\* cache being v: each pass starts a new dict, puts the value read (if the
\* get() returned) into it, and makes it the cache.
RECURSIVE pollLoop(_, _, _, _)
pollLoop(order, read, i, v) ==
    IF i > Len(order) THEN v
    ELSE LET devnm == order[i]
             newvals == IF read[devnm] = Raised THEN EmptyDict
                        ELSE DictSet(EmptyDict, devnm, read[devnm])
         IN pollLoop(order, read, i + 1, newvals)

\* Solbus.poll: get() is called on every device, in dict order; an exception
\* is printed and the loop goes on.
poll(order, read) ==
    /\ vals' = pollLoop(order, read, 1, vals)
    /\ busOut' = BusOut("poll", NoName, NoVal, "return", NoVal,
                        [n \in DevNames |-> IF n \in DOMAIN devs THEN 1 ELSE 0],
                        <<>>, read)

\* A call of poll, with what the devices do in it.
PollCall ==
    \E order \in LastOrders(DOMAIN devs) :
       \E read \in [DOMAIN devs -> Vals \cup {Raised}] :
          /\ \A n \in DOMAIN devs : read[n] \in GetResults(devs[n])
          /\ poll(order, read)

SolbusPoll ==
    /\ PollCall
    /\ UNCHANGED <<devs, powm, mbVars, crcOut, gridVars, runPc>>

\* Solbus.run_forever, the first statement of the loop: self.poll ().
RunForeverPoll ==
    /\ runPc = "poll"
    /\ PollCall
    /\ runPc' = "sleep"
    /\ UNCHANGED <<devs, powm, mbVars, crcOut, gridVars>>

\* Solbus.run_forever, the second statement: time.sleep (self.wait).  The bus
\* has no attribute wait: Solbus.__init__ raises in Grid.byname, the
\* statement before the one that assigns it.  AttributeError ends
\* run_forever.
RunForeverSleep ==
    /\ runPc = "sleep"
    /\ runPc' = "raised"
    /\ busOut' = BusOut("run_forever", NoName, NoVal, "AttributeError", NoVal,
                        NoCalls, <<>>, EmptyDict)
    /\ UNCHANGED <<devs, powm, vals, mbVars, crcOut, gridVars>>

----------------------------------------------------------------------------
(* modbus.py: RS485.sendmsg, RS485.recvmsg *)

Slaves == {1, 2}

\* serio.read(n): up to n bytes of the input; fewer when the timeout ends the
\* read first, which is when the input holds fewer.
SerioRead(inbuf, n) ==
    [data |-> SubSeq(inbuf, 1, Min(n, Len(inbuf))),
     rest |-> SubSeq(inbuf, Min(n, Len(inbuf)) + 1, Len(inbuf))]

\* RS485.sendmsg: the bytes written to the channel.
sendmsg(slave, function, data) ==
    LET msg == chr8(slave) \o chr8(function) \o data
        csum == crc(msg)
    IN msg \o csum

\* errormap.get (errorcode, 'Non-standard failure') without the entry for 11.
errormap_short(errorcode) ==
    CASE errorcode = 1 -> "Illegal function"
      [] errorcode = 2 -> "Illegal data address"
      [] errorcode = 3 -> "Illegal data value"
      [] errorcode = 4 -> "Slave device failure"
      [] errorcode = 5 -> "Acknowledge"
      [] errorcode = 6 -> "Slave device busy"
      [] errorcode = 7 -> "Negative acknowledge"
      [] errorcode = 8 -> "Memory parity error"
      [] errorcode = 10 -> "Gateway path unavailable"
      [] OTHER -> "Non-standard failure"

\* errormap.get (errorcode, 'Non-standard failure')
errormap(errorcode) ==
    CASE errorcode = 1 -> "Illegal function"
      [] errorcode = 2 -> "Illegal data address"
      [] errorcode = 3 -> "Illegal data value"
      [] errorcode = 4 -> "Slave device failure"
      [] errorcode = 5 -> "Acknowledge"
      [] errorcode = 6 -> "Slave device busy"
      [] errorcode = 7 -> "Negative acknowledge"
      [] errorcode = 8 -> "Memory parity error"
      [] errorcode = 10 -> "Gateway path unavailable"
      [] errorcode = 11 -> "Gateway target device failed to respond"
      [] OTHER -> "Non-standard failure"

\* The end of a recvmsg call.  exc: the class of the exception raised ("" when
\* the call returns); fmt, a, b, text: the exception's message, as its format
\* and the values formatted into it; msg: the value returned; inbuf: what
\* is left in the channel's input; reset: whether reset_input_buffer() was
\* called.
Returns(msg, inbuf) ==
    [exc |-> "", fmt |-> "", a |-> NoVal, b |-> NoVal, text |-> "",
     msg |-> msg, inbuf |-> inbuf, reset |-> FALSE]

\* An exception raised by an expression of recvmsg itself: it leaves the
\* method where it arises, before line 204.
Escapes(cls, inbuf) ==
    [exc |-> cls, fmt |-> "", a |-> NoVal, b |-> NoVal, text |-> "",
     msg |-> <<>>, inbuf |-> inbuf, reset |-> FALSE]

\* Lines 204-206: exc is set, the input buffer is reset, exc is raised.
RaisesExc(fmt, a, b, text) ==
    [exc |-> "Exception", fmt |-> fmt, a |-> a, b |-> b, text |-> text,
     msg |-> <<>>, inbuf |-> <<>>, reset |-> TRUE]

\* RS485.recvmsg on a channel whose input holds inbuf.
recvmsg(inbuf, slave, function, datasz) ==
    LET hdr == SerioRead(inbuf, 2)
        msg == hdr.data
    IN  IF Len(msg) < 1 THEN Escapes("IndexError", hdr.rest)
        ELSE IF msg[1] # slave
        THEN RaisesExc("Modbus from/to slave %02x, expected from %02x", msg[1], slave, "")
        ELSE IF Len(msg) < 2 THEN Escapes("IndexError", hdr.rest)
        ELSE IF msg[2] # function
        THEN IF ~chr8ok(function + 128) THEN Escapes("ValueError", hdr.rest)
             ELSE IF msg[2] # function + 128
             THEN RaisesExc("Modbus function %02x, expected %02x", msg[2], function, "")
             ELSE LET code == SerioRead(hdr.rest, 1)
                  IN  IF Len(code.data) # 1 THEN Escapes("TypeError", code.rest)
                      ELSE RaisesExc("Modbus error %02x: %s", code.data[1], NoVal,
                                     errormap(code.data[1]))
        ELSE LET body == SerioRead(hdr.rest, datasz)
             IN  IF Len(body.data) # datasz
                 THEN RaisesExc("Modbus got %d bytes, expected %d",
                                Len(body.data), datasz, "")
                 ELSE LET trailer == SerioRead(body.rest, 2)
                      IN  IF crc(body.data) # trailer.data
                          THEN RaisesExc("Modbus CRC wrong", NoVal, NoVal, "")
                          ELSE Returns(body.data, trailer.rest)

\* A call made on the bus object by one of its own methods.
Call(fn, slave, function, data, datasz) ==
    [fn |-> fn, slave |-> slave, function |-> function, data |-> data, datasz |-> datasz]

\* The record of a Modbus call: its arguments; the sendmsg and recvmsg calls
\* made, in order;
\* the arguments of the last recvmsg and the input it found; how the call
\* ended (r, as for recvmsg) and, for a read operation, the list returned.
MbOut(op, args, calls, input, r, result) ==
    [op |-> op, args |-> args, calls |-> calls, input |-> input, exc |-> r.exc, fmt |-> r.fmt,
     a |-> r.a, b |-> r.b, text |-> r.text, msg |-> r.msg, reset |-> r.reset,
     result |-> result]

NoRecv == Returns(<<>>, <<>>)

DefaultTimeout == 5

----------------------------------------------------------------------------
(* The callers of sendmsg and recvmsg, and the channel. *)

\* Payloads are at most MaxData bytes long.
MaxData == 2
\* The channel's input is never let grow beyond MaxInput bytes.
MaxInput == 6

\* Function codes passed to sendmsg and recvmsg directly.
Functions == {3, 200}
\* Function bytes a reply may carry.
ReplyFunctions == {3, 131, 200, 7}
PayBytes == {0, 255}

\* The sequences over S of length at most n.
SeqsUpTo(S, n) == UNION { [1..k -> S] : k \in 0..n }

Payloads == SeqsUpTo(PayBytes, MaxData)

\* The trailers a frame may come with: the checksum of the payload, the
\* checksum of the whole frame, and one that is neither.
Trailers(a, g, p) == { crc(p), crc(<<a, g>> \o p), <<18, 52>> }

\* What the channel may hold for the transport: every frame over the sets
\* above, cut anywhere.
TransportInputs ==
    UNION { UNION { Prefixes(<<f[1], f[2]>> \o f[3] \o c) : c \in Trailers(f[1], f[2], f[3]) } :
              f \in Slaves \X ReplyFunctions \X Payloads }

\* Every exception reply to function 3, cut anywhere.
ExceptionInputs ==
    UNION { Prefixes(<<a, 131, code>>) : a \in Slaves, code \in 0..255 }

\* sendmsg called by a user of the bus.  serio.write puts the bytes on the
\* line; a channel that loops back (echo) returns them as input.
SendMsg ==
    /\ \E slave \in Slaves, function \in Functions, data \in Payloads, echo \in BOOLEAN :
          \E msg \in { sendmsg(slave, function, data) } :
              /\ echo => Len(serio.inbuf) + Len(msg) <= MaxInput
              /\ serio' = [serio EXCEPT !.inbuf = IF echo THEN @ \o msg ELSE @]
              /\ mbOut' = MbOut("sendmsg", <<slave, function, data>>, <<Call("sendmsg", slave, function, data, NoVal)>>,
                                msg, NoRecv, <<>>)
    /\ UNCHANGED <<busVars, crcOut, gridVars, runPc>>

\* recvmsg called by a user of the bus.
RecvMsg ==
    /\ \E slave \in Slaves, function \in Functions, datasz \in 0..MaxData :
          \E r \in { recvmsg(serio.inbuf, slave, function, datasz) } :
              /\ serio' = [serio EXCEPT !.timeout = DefaultTimeout, !.inbuf = r.inbuf]
              /\ mbOut' = MbOut("recvmsg", <<slave, function, datasz>>, <<Call("recvmsg", slave, function, <<>>, datasz)>>,
                                serio.inbuf, r, <<>>)
    /\ UNCHANGED <<busVars, crcOut, gridVars, runPc>>

----------------------------------------------------------------------------
(* modbus.py: the register operations of class Modbus, on an RS485 bus. *)

\* Lists passed to write_coils and write_holdregs have at most MaxVals items.
MaxVals == 1
\* Read operations ask for 1..MaxCount items.
MaxCount == 2

RegNrs == {1, 258}
RegVals == {0, 513}

\* values [0] == count in _read1 and _read16 compares a one-character string
\* with an int, which Python 2 finds unequal whatever they are.
StrEqualsInt(c, n) == FALSE

\* ord8 = ord takes a string of length one; of a bool it raises TypeError.
ord8ok(x) == x \notin BOOLEAN
ord8(x) == x

\* sendmsg, then recvmsg, as every register operation calls them, and what a
\* read operation (count given) does with the reply recvmsg returned.
Exchange(op, args, slave, function, data, datasz, count) ==
    \E r \in { recvmsg(serio.inbuf, slave, function, datasz) } :
        /\ serio' = [serio EXCEPT !.timeout = DefaultTimeout, !.inbuf = r.inbuf]
        /\ mbOut' =
             LET calls == << Call("sendmsg", slave, function, data, NoVal),
                             Call("recvmsg", slave, function, <<>>, datasz) >>
             IN  IF r.exc # "" \/ count = NoVal
                 THEN MbOut(op, args, calls, serio.inbuf, r, <<>>)
                 \* lines 66-68 and 86-88
                 ELSE IF ~ord8ok(StrEqualsInt(r.msg[1], count))
                 THEN MbOut(op, args, calls, serio.inbuf, Escapes("TypeError", r.inbuf), <<>>)
                 ELSE IF ord8(StrEqualsInt(r.msg[1], count)) = 0
                 THEN MbOut(op, args, calls, serio.inbuf, Escapes("AssertionError", r.inbuf), <<>>)
                 ELSE MbOut(op, args, calls, serio.inbuf, r, [i \in 1..count |-> 0])

write_coil_swapped(slave, coilnr, value) ==
    LET data == chr16(coilnr) \o chr16(IF value THEN 65280 ELSE 0)
    IN  Exchange("write_coil", <<slave, coilnr, value>>, slave, 5, data, Len(data), NoVal)

write_coil(slave, coilnr, value) ==
    LET data == chr16(coilnr) \o chr16(IF value THEN 255 ELSE 0)
    IN  Exchange("write_coil", <<slave, coilnr, value>>, slave, 5, data, Len(data), NoVal)

write_coils(slave, coil1, values) ==
    Exchange("write_coils", <<slave, coil1, values>>, slave, 15, chr16(coil1) \o chr16(Len(values)), 4, NoVal)

read1(op, slave, function, first, count) ==
    Exchange(op, <<slave, first, count>>, slave, function, chr16(first) \o chr16(count),
             1 + ((count + 7) \div 8), count)

read_coils(slave, coil1, numcoils) == read1("read_coils", slave, 1, coil1, numcoils)

read_switches(slave, swi1, numswi) == read1("read_switches", slave, 2, swi1, numswi)

read16(op, slave, function, first, count) ==
    Exchange(op, <<slave, first, count>>, slave, function, chr16(first) \o chr16(count), 1 + 2 * count, count)

read_inputs(slave, input1, numinputs) == read16("read_inputs", slave, 4, input1, numinputs)

read_holdregs(slave, reg1, numregs) == read16("read_holdregs", slave, 3, reg1, numregs)

write_holdreg(slave, reg, value) ==
    LET data == chr16(reg) \o chr16(value)
    IN  Exchange("write_holdreg", <<slave, reg, value>>, slave, 6, data, Len(data), NoVal)

\* for v in values: data += chr16 (v)
RECURSIVE chr16s(_)
chr16s(values) ==
    IF values = <<>> THEN <<>> ELSE chr16(Head(values)) \o chr16s(Tail(values))

write_holdregs(slave, reg1, values) ==
    Exchange("write_holdregs", <<slave, reg1, values>>, slave, 16,
             chr16(reg1) \o chr16(Len(values)) \o chr8(2 * Len(values)) \o chr16s(values),
             4, NoVal)

WriteCoil ==
    /\ \E slave \in Slaves, coilnr \in RegNrs, value \in BOOLEAN :
          write_coil(slave, coilnr, value)
    /\ UNCHANGED <<busVars, crcOut, gridVars, runPc>>

WriteCoils ==
    /\ \E slave \in Slaves, coil1 \in RegNrs, values \in SeqsUpTo(BOOLEAN, MaxVals) :
          write_coils(slave, coil1, values)
    /\ UNCHANGED <<busVars, crcOut, gridVars, runPc>>

ReadCoils ==
    /\ \E slave \in Slaves, coil1 \in RegNrs, numcoils \in 1..MaxCount :
          read_coils(slave, coil1, numcoils)
    /\ UNCHANGED <<busVars, crcOut, gridVars, runPc>>

ReadSwitches ==
    /\ \E slave \in Slaves, swi1 \in RegNrs, numswi \in 1..MaxCount :
          read_switches(slave, swi1, numswi)
    /\ UNCHANGED <<busVars, crcOut, gridVars, runPc>>

ReadInputs ==
    /\ \E slave \in Slaves, input1 \in RegNrs, numinputs \in 1..MaxCount :
          read_inputs(slave, input1, numinputs)
    /\ UNCHANGED <<busVars, crcOut, gridVars, runPc>>

ReadHoldregs ==
    /\ \E slave \in Slaves, reg1 \in RegNrs, numregs \in 1..MaxCount :
          read_holdregs(slave, reg1, numregs)
    /\ UNCHANGED <<busVars, crcOut, gridVars, runPc>>

WriteHoldreg ==
    /\ \E slave \in Slaves, reg \in RegNrs, value \in RegVals :
          write_holdreg(slave, reg, value)
    /\ UNCHANGED <<busVars, crcOut, gridVars, runPc>>

WriteHoldregs ==
    /\ \E slave \in Slaves, reg1 \in RegNrs, values \in SeqsUpTo(RegVals, MaxVals) :
          write_holdregs(slave, reg1, values)
    /\ UNCHANGED <<busVars, crcOut, gridVars, runPc>>

\* The lengths of the replies the operations ask recvmsg for.
ReplyLens ==
    {4} \cup { 1 + ((c + 7) \div 8) : c \in 1..MaxCount } \cup { 1 + 2 * c : c \in 1..MaxCount }

\* Reply payloads: a first byte that may be the count, then the bytes of the
\* values.
ReplyPayloads ==
    { [i \in 1..n |-> IF i = 1 THEN c ELSE IF i = 2 THEN 5 ELSE 255] :
        n \in ReplyLens, c \in 1..MaxCount }

\* What the channel may hold for a register operation: replies from either
\* slave to a read of coils or registers or to a write of a coil, exception
\* replies, with a good or a bad trailer, cut anywhere.
ModbusInputs ==
    UNION { UNION { Prefixes(<<f[1], f[2]>> \o f[3] \o c) : c \in { crc(f[3]), <<18, 52>> } } :
              f \in Slaves \X {1, 3, 5, 133} \X ReplyPayloads }

----------------------------------------------------------------------------
(* RS485._crc called on its own. *)

CrcBytes == {0, 1, 2, 49, 128, 160, 165, 254, 255, 90}

\* The byte strings _crc is called on; the last is the check string of the
\* CRC catalogues.
CrcMsgs == SeqsUpTo(CrcBytes, MaxCrcLen) \cup { <<49, 50, 51, 52, 53, 54, 55, 56, 57>> }

\* A caller has a message at hand and calls _crc on it, or on another one in
\* between, at most MaxCrcCalls times.
MaxCrcCalls == 3

CrcOut(mine, msg, out, mids, calls) ==
    [mine |-> mine, msg |-> msg, out |-> out, mids |-> mids, calls |-> calls]

CrcCall ==
    /\ crcOut.calls < MaxCrcCalls
    /\ \E msg \in {crcOut.mine, <<>>, <<1, 3>>} :
          crcOut' = CrcOut(crcOut.mine, msg, crc(msg), crcMids(msg), crcOut.calls + 1)
    /\ UNCHANGED <<busVars, mbVars, gridVars, runPc>>

----------------------------------------------------------------------------
(* drivers.py: PowerClaim and Grid *)

GridNames == {"home", "barn"}
Periods == {60, 300}

\* A PowerClaim object as a driver makes it: PowerClaim.__init__ sets the
\* three flags to False and the power and the priority to 0 from now on; the
\* driver then sets the flags, the power and the priority of its claim.
PowerClaim(name, priority, watts, suspended, delayed, reset) ==
    [name |-> name, priority |-> priority, watts |-> watts,
     can_be_suspended |-> suspended, can_be_delayed |-> delayed, can_be_reset |-> reset]

\* The claims drivers make: a manual override of 1000 W without flexibility,
\* and claims of lower priority, with the default flags or suspendable.
PowerClaims ==
    { PowerClaim("A", 10, 1000, FALSE, FALSE, FALSE),
      PowerClaim("B", 3, 200, TRUE, FALSE, FALSE),
      PowerClaim("P2", 2, 500, TRUE, FALSE, FALSE),
      PowerClaim("P5", 5, 500, TRUE, FALSE, FALSE),
      PowerClaim("P8", 8, 500, FALSE, FALSE, FALSE) }

\* The watts in a wattlist: generation negative, use positive.
Watts == {0 - 300, 500}
MaxWattLen == 2
Wattlists == UNION { [1..k -> Watts] : k \in 0..MaxWattLen }

\* claim_power and retract_claim are called at most this often on a Grid.
MaxGridCalls == 3

\* A Grid object.  has_wattlist: whether it has the attribute wattlist.
\* Grid.__init__ stores the name, an empty list of buses and the power 0;
\* the period is not stored.
GridObject(name, period) ==
    [name |-> name, list |-> <<>>, power |-> 0, has_wattlist |-> FALSE, wattlist |-> <<>>]

\* The record of a Grid call.  name: the grid name asked for; claim: the
\* claim passed; outcome: "return" or the exception raised; result: what was
\* returned ("True", "False", "None", "Grid" for a Grid object, "" when the
\* call raised); preempts: the suspend, delay and reset calls made on claims;
\* log: the claim_power and retract_claim calls made on the Grid so far.
GridOut(op, name, claim, wattlist, outcome, result, preempts, log) ==
    [op |-> op, name |-> name, claim |-> claim, wattlist |-> wattlist,
     outcome |-> outcome, result |-> result, preempts |-> preempts, log |-> log]

NoClaim == PowerClaim("", 0, 0, FALSE, FALSE, FALSE)

LogEntry(op, claim, outcome) == [op |-> op, claim |-> claim.name, outcome |-> outcome]

\* Grid (name, period): a new Grid object.
GridInit ==
    /\ \E name \in GridNames, period \in Periods :
          /\ grid' = GridObject(name, period)
          /\ gridOut' = GridOut("Grid", name, NoClaim, <<>>, "return", "Grid", <<>>, <<>>)
    /\ UNCHANGED <<busVars, mbVars, crcOut, name2grid, runPc>>

\* Grid.byname: the name name2grid is no global of the module and no local
\* of the function (it is an attribute of the class): NameError at the test.
byname(op, name) ==
    /\ gridOut' = GridOut(op, name, NoClaim, <<>>, "NameError", "", <<>>, gridOut.log)
    /\ UNCHANGED <<name2grid, grid>>

GridByname ==
    /\ \E name \in GridNames : byname("byname", name)
    /\ UNCHANGED <<busVars, mbVars, crcOut, runPc>>

\* Grid.home
GridHome ==
    /\ byname("home", "home")
    /\ UNCHANGED <<busVars, mbVars, crcOut, runPc>>

\* Solbus.__init__: the dicts are assigned, then Grid.byname raises, so that
\* neither grid nor wait is assigned.
SolbusInit ==
    /\ \E gridname \in GridNames :
          /\ devs' = EmptyDict
          /\ powm' = EmptyDict
          /\ vals' = EmptyDict
          /\ byname("byname", gridname)
          /\ busOut' = BusOut("__init__", NoName, NoVal, "NameError", NoVal,
                              NoCalls, <<>>, EmptyDict)
    /\ UNCHANGED <<mbVars, crcOut, runPc>>

\* Grid.balance_power with a list that is kept instead of the one before.
balance_power_adding(wattlist) ==
    /\ grid' = [grid EXCEPT !.has_wattlist = TRUE, !.wattlist = @ \o wattlist]
    /\ gridOut' = GridOut("balance_power", grid.name, NoClaim, wattlist, "return", "None",
                          <<>>, gridOut.log)

\* Grid.balance_power: the list becomes the attribute wattlist.
balance_power(wattlist) ==
    /\ grid' = [grid EXCEPT !.has_wattlist = TRUE, !.wattlist = wattlist]
    /\ gridOut' = GridOut("balance_power", grid.name, NoClaim, wattlist, "return", "None",
                          <<>>, gridOut.log)

BalancePower ==
    /\ \E wattlist \in Wattlists : balance_power(wattlist)
    /\ UNCHANGED <<busVars, mbVars, crcOut, name2grid, runPc>>

\* Grid.claim_power: raises NotImplementedError.
claim_power(claim) ==
    /\ gridOut' = GridOut("claim_power", grid.name, claim, <<>>, "NotImplementedError", "",
                          <<>>, Append(gridOut.log, LogEntry("claim_power", claim, "NotImplementedError")))
    /\ UNCHANGED <<name2grid, grid>>

ClaimPower ==
    /\ Len(gridOut.log) < MaxGridCalls
    /\ \E claim \in PowerClaims : claim_power(claim)
    /\ UNCHANGED <<busVars, mbVars, crcOut, runPc>>

\* Grid.retract_claim: raises NotImplementedError.
retract_claim(claim) ==
    /\ gridOut' = GridOut("retract_claim", grid.name, claim, <<>>, "NotImplementedError", "",
                          <<>>, Append(gridOut.log, LogEntry("retract_claim", claim, "NotImplementedError")))
    /\ UNCHANGED <<name2grid, grid>>

RetractClaim ==
    /\ Len(gridOut.log) < MaxGridCalls
    /\ \E claim \in PowerClaims : retract_claim(claim)
    /\ UNCHANGED <<busVars, mbVars, crcOut, runPc>>

----------------------------------------------------------------------------
(* Specifications. *)

InitBus ==
    /\ devs = EmptyDict
    /\ powm = EmptyDict
    /\ vals = EmptyDict
    /\ busOut = BusOut("init", NoName, NoVal, "return", NoVal, NoCalls, <<>>, EmptyDict)

InitChannel(Inputs) ==
    /\ serio \in { [timeout |-> NoVal, inbuf |-> i] : i \in Inputs }
    /\ mbOut = MbOut("init", <<>>, <<>>, <<>>, NoRecv, <<>>)

InitCrc == crcOut = CrcOut(<<>>, <<>>, <<>>, {}, 0)

\* The class attribute name2grid is empty; a Grid made with the defaults;
\* run_forever is about to poll.
InitGrid ==
    /\ name2grid = EmptyDict
    /\ grid = GridObject("home", 300)
    /\ gridOut = GridOut("Grid", "home", NoClaim, <<>>, "return", "Grid", <<>>, <<>>)
    /\ runPc = "poll"

Init == InitBus /\ InitChannel({ <<>> }) /\ InitCrc /\ InitGrid

NextBus == AddDevice \/ SoldevInit \/ SolbusGetItem \/ SolbusSetItem \/ SolbusPoll

SpecBus == Init /\ [][NextBus]_vars

\* A bus to which devices are added while run_forever runs.
NextRun == AddDevice \/ SoldevInit \/ RunForeverPoll \/ RunForeverSleep

SpecRun == Init /\ [][NextRun]_vars

\* A caller sends requests over a channel that may loop them back, and
\* receives.
NextRoundTrip == SendMsg \/ RecvMsg

SpecRoundTrip == Init /\ [][NextRoundTrip]_vars

\* recvmsg on every input the channel may hold.
InitTransport ==
    InitBus /\ InitChannel(TransportInputs \cup ExceptionInputs) /\ InitCrc /\ InitGrid

NextTransport == RecvMsg

SpecTransport == InitTransport /\ [][NextTransport]_vars

InitModbus == InitBus /\ InitChannel(ModbusInputs) /\ InitCrc /\ InitGrid

NextModbus ==
    \/ WriteCoil \/ WriteCoils \/ ReadCoils \/ ReadSwitches
    \/ ReadInputs \/ ReadHoldregs \/ WriteHoldreg \/ WriteHoldregs

SpecModbus == InitModbus /\ [][NextModbus]_vars

InitCrcMsgs ==
    /\ InitBus
    /\ InitChannel({ <<>> })
    /\ crcOut \in { CrcOut(m, <<>>, <<>>, {}, 0) : m \in CrcMsgs }
    /\ InitGrid

NextCrc == CrcCall

SpecCrc == InitCrcMsgs /\ [][NextCrc]_vars

\* Callers of a Grid: the buses that report their watts and the drivers
\* that claim power.
NextGrid == BalancePower \/ ClaimPower \/ RetractClaim

SpecGrid == Init /\ [][NextGrid]_vars

\* Callers that make grids, look them up by name, make a bus and add
\* devices to it.
NextRegistry ==
    GridInit \/ GridByname \/ GridHome \/ SolbusInit \/ AddDevice \/ SoldevInit

SpecRegistry == Init /\ [][NextRegistry]_vars

----------------------------------------------------------------------------
(* Claims on the Solbus (SpecBus). *)

\* The devices whose get() raised in the poll that busOut records.
PollFailed(out) == { n \in DOMAIN out.read : out.read[n] = Raised }

\* C1: poll isolation.  After a poll in which the get() of exactly one device
\* k fails and every other succeeds, the cache holds the value just read for
\* every device other than k, and for k what it held before the poll (no
\* entry if it had none).
C1_PollIsolation ==
    [][ (busOut'.op = "poll" /\ Cardinality(PollFailed(busOut')) = 1)
        => \A k \in PollFailed(busOut') :
              /\ \A d \in (DOMAIN devs) \ {k} :
                    d \in DOMAIN vals' /\ vals'[d] = busOut'.read[d]
              /\ k \in DOMAIN vals => (k \in DOMAIN vals' /\ vals'[k] = vals[k])
              /\ k \notin DOMAIN vals => k \notin DOMAIN vals' ]_vars

C8_SetByName ==
    (busOut.op = "setitem" /\ busOut.name \in DOMAIN devs)
    => LET n == busOut.name
       IN  IF devs[n].writeable
           THEN /\ busOut.sets = << <<n, busOut.arg>> >>
                /\ busOut.outcome \in {"return", "DeviceError"}
                /\ busOut.outcome = "return" => (n \in DOMAIN vals /\ vals[n] = busOut.arg)
           ELSE /\ busOut.sets = <<>>
                /\ busOut.outcome # "return"

----------------------------------------------------------------------------
(* Claims on the transport (SpecRoundTrip, SpecTransport). *)

\* C2: when the channel returns exactly the bytes sendmsg(slave, function,
\* payload) wrote, recvmsg(slave, function, len(payload)) returns payload and
\* raises nothing.
C2_RoundTrip ==
    mbOut.op = "recvmsg"
    => \A payload \in Payloads :
          (Len(payload) = mbOut.args[3]
           /\ mbOut.input = sendmsg(mbOut.args[1], mbOut.args[2], payload))
          => (mbOut.exc = "" /\ mbOut.msg = payload)

\* C3: whenever recvmsg ends with an error, reset_input_buffer() was called
\* before the error reached the caller.
C3_ResetOnFailure == (mbOut.op = "recvmsg" /\ mbOut.exc # "") => mbOut.reset

\* The error kind of the design that a recvmsg outcome is, by the class and
\* the message of what was raised.
Kind(out) ==
    IF out.exc = "" THEN "payload"
    ELSE IF out.exc # "Exception" THEN out.exc
    ELSE CASE out.fmt = "Modbus from/to slave %02x, expected from %02x" -> "AddressMismatch"
           [] out.fmt = "Modbus function %02x, expected %02x" -> "FunctionMismatch"
           [] out.fmt = "Modbus error %02x: %s" -> "ProtocolError"
           [] out.fmt = "Modbus got %d bytes, expected %d" -> "LengthMismatch"
           [] out.fmt = "Modbus CRC wrong" -> "ChecksumMismatch"
           [] OTHER -> "unknown"

\* The decision order of C4 on a reply (at least the two header bytes); the
\* trailer is held against the checksum of the payload, as recvmsg does.
C4Order(input, slave, function, datasz) ==
    IF input[1] # slave THEN "AddressMismatch"
    ELSE IF input[2] = function
    THEN IF Len(input) - 2 < datasz THEN "LengthMismatch"
         ELSE IF SubSeq(input, 3 + datasz, Min(Len(input), 4 + datasz))
                    # crc(SubSeq(input, 3, 2 + datasz))
         THEN "ChecksumMismatch"
         ELSE "payload"
    ELSE IF input[2] = function + 128 THEN "ProtocolError"
    ELSE "FunctionMismatch"

\* C4: recvmsg classifies every reply to a request (function code below 128)
\* by the one decision order: address, then function (length, checksum,
\* payload), then function + 128, then any other function byte; and the
\* payload it returns is the reply's.
C4_DecisionOrder ==
    (mbOut.op = "recvmsg" /\ Len(mbOut.input) >= 2 /\ mbOut.args[2] < 128)
    => /\ Kind(mbOut) = C4Order(mbOut.input, mbOut.args[1], mbOut.args[2], mbOut.args[3])
       /\ mbOut.exc = "" => mbOut.msg = SubSeq(mbOut.input, 3, 2 + mbOut.args[3])

\* The fixed message of each documented error code.
C5Message(code) ==
    CASE code = 1 -> "Illegal function"
      [] code = 2 -> "Illegal data address"
      [] code = 3 -> "Illegal data value"
      [] code = 4 -> "Slave device failure"
      [] code = 5 -> "Acknowledge"
      [] code = 6 -> "Slave device busy"
      [] code = 7 -> "Negative acknowledge"
      [] code = 8 -> "Memory parity error"
      [] code = 10 -> "Gateway path unavailable"
      [] code = 11 -> "Gateway target device failed to respond"
      [] OTHER -> "Non-standard failure"

\* C5: a reply with the expected address and function + 128 makes recvmsg
\* fail with the protocol error that carries the next byte as error code and
\* the fixed message of that code, or the generic message for any other code.
C5_ErrorCodes ==
    (/\ mbOut.op = "recvmsg"
     /\ Len(mbOut.input) >= 3
     /\ mbOut.input[1] = mbOut.args[1]
     /\ mbOut.input[2] = mbOut.args[2] + 128)
    => /\ mbOut.exc = "Exception"
       /\ mbOut.fmt = "Modbus error %02x: %s"
       /\ mbOut.a = mbOut.input[3]
       /\ mbOut.text = C5Message(mbOut.input[3])

\* An exception reply with the last documented code has been received.
C5_Witness ==
    /\ mbOut.op = "recvmsg"
    /\ mbOut.input = <<mbOut.args[1], mbOut.args[2] + 128, 11>>
    /\ mbOut.text = "Gateway target device failed to respond"

----------------------------------------------------------------------------
(* Claims on the checksum (SpecCrc). *)

\* The reflected Modbus CRC-16 as the standard states it: the byte is XORed
\* into the low byte, then eight times the checksum is shifted right by one
\* and XORed with 0xA001 when the bit shifted out was 1.
StdShift[c \in Nat] ==
    IF c % 2 = 1 THEN BitXor[c \div 2, 40961] ELSE c \div 2

StdByte[c \in Nat] ==
    StdShift[StdShift[StdShift[StdShift[StdShift[StdShift[StdShift[StdShift[c]]]]]]]]

StdCrc[msg \in Seq(Nat)] ==
    IF msg = <<>> THEN 65535
    ELSE StdByte[BitXor[StdCrc[SubSeq(msg, 1, Len(msg) - 1)], msg[Len(msg)]]]

\* C6: _crc returns the standard reflected Modbus CRC-16 of its argument as
\* two bytes, low byte first; the checksum never exceeds 16 bits after a
\* shift; and the result depends on the argument only, whatever was
\* computed before.
C6_Crc ==
    crcOut.calls > 0
    => /\ crcOut.out = << StdCrc[crcOut.msg] % 256, StdCrc[crcOut.msg] \div 256 >>
       /\ Len(crcOut.out) = 2
       /\ \A m \in crcOut.mids : m <= 65535
       /\ crcOut.msg = <<49, 50, 51, 52, 53, 54, 55, 56, 57>> => crcOut.out = <<55, 75>>

\* _crc has been called on the check string after a call on another message.
C6_Witness ==
    /\ crcOut.calls = MaxCrcCalls
    /\ crcOut.msg = <<49, 50, 51, 52, 53, 54, 55, 56, 57>>
    /\ crcOut.out = <<55, 75>>
    /\ crcOut.mids # {}

----------------------------------------------------------------------------
(* Claims on the register operations (SpecModbus). *)

RegisterOps ==
    {"read_coils", "read_switches", "read_holdregs", "read_inputs",
     "write_coil", "write_holdreg", "write_coils", "write_holdregs"}

\* The function code of each register operation.
C9Function(op) ==
    CASE op = "read_coils" -> 1
      [] op = "read_switches" -> 2
      [] op = "read_holdregs" -> 3
      [] op = "read_inputs" -> 4
      [] op = "write_coil" -> 5
      [] op = "write_holdreg" -> 6
      [] op = "write_coils" -> 15
      [] op = "write_holdregs" -> 16

\* C9: every register operation calls sendmsg once and then recvmsg once,
\* both with the caller's slave address and the function code of the
\* operation; the payload of write_coil is the coil number and then 0x00FF
\* for true or 0x0000 for false, each low byte first.
C9_OneExchange ==
    mbOut.op \in RegisterOps
    => /\ Len(mbOut.calls) = 2
       /\ mbOut.calls[1].fn = "sendmsg"
       /\ mbOut.calls[2].fn = "recvmsg"
       /\ \A i \in 1..2 : /\ mbOut.calls[i].slave = mbOut.args[1]
                          /\ mbOut.calls[i].function = C9Function(mbOut.op)
       /\ mbOut.op = "write_coil"
            => mbOut.calls[1].data =
                 << mbOut.args[2] % 256, mbOut.args[2] \div 256,
                    IF mbOut.args[3] THEN 255 ELSE 0, 0 >>

\* A coil with a number above 255 has been switched on and the slave's
\* reply was accepted; and a holding register read was issued.
C9_Witness ==
    /\ mbOut.op = "write_coil"
    /\ mbOut.args[2] > 255
    /\ mbOut.args[3]
    /\ mbOut.exc = ""
    /\ mbOut.calls[1].data = <<2, 1, 255, 0>>

\* What recvmsg made of the reply to the read operation that mbOut records.
C10Reply ==
    recvmsg(mbOut.input, mbOut.args[1], C9Function(mbOut.op),
            IF mbOut.op \in {"read_coils", "read_switches"}
            THEN 1 + ((mbOut.args[3] + 7) \div 8)
            ELSE 1 + 2 * mbOut.args[3])

\* Bit i (from 0) of the bitmap that follows the count byte.
C10Bit(msg, i) == (msg[2 + (i \div 8)] \div (2 ^ (i % 8))) % 2

\* Word i (from 0) that follows the count byte, low byte first.
C10Word(msg, i) == msg[2 + 2 * i] + 256 * msg[3 + 2 * i]

\* C10: a read operation whose reply recvmsg accepted returns the values the
\* reply carries (the bits of the bitmap, or the 16-bit words low byte
\* first) when the first byte of the reply is the count asked for, and
\* rejects the reply otherwise.
C10_ReadValues ==
    (/\ mbOut.op \in {"read_coils", "read_switches", "read_inputs", "read_holdregs"}
     /\ C10Reply.exc = "")
    => LET msg == C10Reply.msg
           n == mbOut.args[3]
       IN  IF msg[1] = n
           THEN /\ mbOut.exc = ""
                /\ mbOut.result =
                     [i \in 1..n |-> IF mbOut.op \in {"read_coils", "read_switches"}
                                     THEN C10Bit(msg, i - 1) ELSE C10Word(msg, i - 1)]
           ELSE mbOut.exc # ""

----------------------------------------------------------------------------
(* Claims on the Grid (SpecGrid, SpecRegistry). *)

\* The claim_power and retract_claim calls made on the Grid so far.
LogOps == [i \in 1..Len(gridOut.log) |-> <<gridOut.log[i].op, gridOut.log[i].claim>>]

\* C11: claim_power ends by returning success or failure, never by raising;
\* on a Grid of capacity 1000 W that was asked for claim A (priority 10,
\* 1000 W, no flexibility), claim_power of claim B (priority 3, 200 W)
\* returns failure, and after retract_claim of A it returns success.
C11_ClaimPowerFailure ==
    gridOut.op = "claim_power"
    => /\ gridOut.outcome = "return"
       /\ gridOut.result \in {"True", "False"}
       /\ LogOps = << <<"claim_power", "A">>, <<"claim_power", "B">> >>
            => gridOut.result = "False"
       /\ LogOps = << <<"claim_power", "A">>, <<"retract_claim", "A">>, <<"claim_power", "B">> >>
            => gridOut.result = "True"

\* C12: on a Grid of capacity 1000 W that admitted the suspendable claims P2
\* (priority 2, 500 W) and P5 (priority 5, 500 W), claim_power of P8
\* (priority 8, 500 W) preempts P2 and nothing else.
C12_PreemptionOrder ==
    (/\ gridOut.op = "claim_power"
     /\ LogOps \in { << <<"claim_power", "P2">>, <<"claim_power", "P5">>, <<"claim_power", "P8">> >>,
                     << <<"claim_power", "P5">>, <<"claim_power", "P2">>, <<"claim_power", "P8">> >> })
    => /\ gridOut.preempts # <<>>
       /\ \A i \in 1..Len(gridOut.preempts) :
             /\ gridOut.preempts[i].claim = "P2"
             /\ gridOut.preempts[i].call \in {"suspend", "delay", "reset"}

\* C14: on a Grid of capacity 500 W on which P2 (priority 2, 500 W,
\* suspendable) was admitted and then suspended for P8 (priority 8, 500 W),
\* retract_claim of P8 returns and resumes P2.
C14_RetractRelaxation ==
    (/\ gridOut.op = "retract_claim"
     /\ LogOps = << <<"claim_power", "P2">>, <<"claim_power", "P8">>, <<"retract_claim", "P8">> >>)
    => /\ gridOut.outcome = "return"
       /\ gridOut.preempts = << [call |-> "resume", claim |-> "P2"] >>

RECURSIVE SumOf(_)
SumOf(list) == IF list = <<>> THEN 0 ELSE Head(list) + SumOf(Tail(list))

\* C16 as stated: after balance_power(wattlist) the power the Grid holds is
\* the sum of the entries of wattlist, and no claim call was logged or made.
C16_BalanceIsPower ==
    [][ gridOut'.op = "balance_power"
        => /\ grid'.power = SumOf(gridOut'.wattlist)
           /\ gridOut'.preempts = <<>>
           /\ gridOut'.log = gridOut.log ]_vars

\* C16, amended: after balance_power(wattlist) the Grid holds that list as
\* its attribute wattlist, instead of the one before, so that the sum of the
\* list held is the sum of the entries of wattlist; the attribute power is
\* what it was, and no claim call was logged or made.
C16_BalancePower ==
    [][ gridOut'.op = "balance_power"
        => /\ gridOut'.outcome = "return"
           /\ grid'.has_wattlist
           /\ grid'.wattlist = gridOut'.wattlist
           /\ SumOf(grid'.wattlist) = SumOf(gridOut'.wattlist)
           /\ grid'.power = grid.power
           /\ gridOut'.preempts = <<>>
           /\ gridOut'.log = gridOut.log ]_vars

\* balance_power was called with a list of two entries on a Grid that was
\* asked for a claim before.
C16_Witness ==
    /\ gridOut.op = "balance_power"
    /\ gridOut.wattlist = <<500, 0 - 300>>
    /\ grid.wattlist = <<500, 0 - 300>>
    /\ gridOut.log # <<>>

\* C17: every lookup of a grid by name returns the one Grid the registry
\* holds under that name, and a Bus constructed with a grid name is
\* constructed.
C17_Registry ==
    /\ gridOut.op \in {"byname", "home"}
         => /\ gridOut.outcome = "return"
            /\ gridOut.name \in DOMAIN name2grid
            /\ name2grid[gridOut.name].name = gridOut.name
    /\ busOut.op = "__init__" => busOut.outcome = "return"

\* C18: add_device under a name not yet used returns and leaves the device
\* registered under that name with mode 'init' and no cached value; under a
\* name in use it is rejected and changes nothing.
C18_AddDevice ==
    [][ busOut'.op = "add_device"
        => LET n == busOut'.name
           IN  IF n \notin DOMAIN devs
               THEN /\ busOut'.outcome = "return"
                    /\ n \in DOMAIN devs'
                    /\ n \in DOMAIN powm' /\ powm'[n] = "init"
                    /\ n \notin DOMAIN vals'
               ELSE /\ busOut'.outcome # "return"
                    /\ devs' = devs /\ powm' = powm /\ vals' = vals ]_vars

\* C19: poll calls get() once on every registered device and returns,
\* whichever of them raise; and run_forever goes on from each poll to its
\* sleep and to the next cycle, no exception ending it.
C19_PollNeverAborted ==
    /\ busOut.op = "poll"
         => /\ busOut.outcome = "return"
            /\ \A n \in DevNames : busOut.gets[n] = (IF n \in DOMAIN devs THEN 1 ELSE 0)
    /\ runPc # "raised"

\* C20: when the device's set(value) raises in a Bus set, or its get() in a
\* Bus get, the error reaches the caller and the cache is what it was.
C20_FailedAccess ==
    [][ (busOut'.op \in {"setitem", "getitem"} /\ busOut'.outcome = "DeviceError")
        => vals' = vals ]_vars

\* A set failed in the device, with a value the cache does not hold for it;
\* and a get did.
C20_Witness ==
    /\ busOut.op = "setitem"
    /\ busOut.outcome = "DeviceError"
    /\ busOut.sets = << <<busOut.name, busOut.arg>> >>
    /\ busOut.name \in DOMAIN vals
    /\ vals[busOut.name] # busOut.arg

=============================================================================
